---- MODULE Spec2Model ----
(***************************************************************************)
(* Epoch-loop orchestrator of pytorch_cls/core/trainer.py: train_model,   *)
(* test_model and time_model, with train_epoch and test_epoch unfolded    *)
(* to the mini-batch level.  One action per statement group of the        *)
(* source; pc is the position of the single thread of control.            *)
(***************************************************************************)
EXTENDS Integers, Sequences, FiniteSets, TLC

\* ---------------------------------------------------------------- bounds
MaxEpoch == 5
MaxPeriod == 2
NumBatches == 2
MaxErr == 1
MaxGpus == 2
MaxCrashes == 1
DistEpochs == 2
DistBatches == 1

\* ------------------------------------------------- constants of the code
\* torch.cuda.amp.GradScaler() defaults: init_scale = 2.0**16,
\* growth_interval = 2000; backoff_factor = 0.5 and growth_factor = 2.0 are
\* one step of the binary exponent.  The scale is a float32 power of two and
\* is kept as its exponent; ZeroExp stands for the value 0.0, which halving
\* the smallest subnormal (2^-149) rounds to.
InitScaleExp == 16
GrowthInterval == 2000
ZeroExp == 0 - 150
MaxScaleExp == 127

Errs == 0 .. MaxErr

\* TestMeter starts with no best error (+infinity).
NoBest == 0 - 1
NoEpoch == 0 - 1

\* ------------------------------------------------------------ the state
VARIABLES
    cfg,            \* the configuration (cfg.*), fixed for the run
    device_count,   \* torch.cuda.device_count()
    has_autocast,   \* hasattr(torch.cuda.amp, 'autocast')
    pc,             \* position of the thread of control
    files,          \* checkpoint files on disk: epoch index -> is_best of
                    \* the record last written to that epoch's path
    best_file,      \* the best-pointer file: {} or {epoch index it holds}
    model_from,     \* where the model's weights were taken from
    optim_from,     \* where the optimizer's state was taken from
    start_epoch,
    cur_epoch,
    cur_iter,
    params,         \* number of optimizer updates applied to the parameters
    lr_epoch,       \* epoch index the optimizer's learning rate was set for
    mode_train,     \* model.training
    drop_prob,      \* <<numerator, denominator>> of the drop-path factor
    scaler,         \* GradScaler of the running train_epoch, or NoScaler
    found_inf,      \* the scaler found inf/NaN in the current gradients
    pre_step,       \* the current iteration: parameters and scale before
                    \* it, and whether its gradients overflowed
    test_meter,     \* [min_top1_err, is_best] of TestMeter
    loaders,        \* the data loaders have been constructed
    trace,          \* completed operations, in order
    stored,         \* the checkpoint directory as the last completed save
                    \* (or the start of the run) left it
    shuffle_epoch,  \* epoch index the train loader's order was drawn from
    grads,          \* the .grad buffers: backward passes accumulated since
                    \* zero_grad, and whether their norm has been clipped
    grad_enabled,   \* torch.is_grad_enabled()
    pre_test,       \* parameters, optimizer and grad mode at the entry of
                    \* the latest test_epoch
    proc,           \* the device processes of a distributed run, by rank
    coll,           \* result of the latest completed cross-device reduction
    writing         \* checkpoint writes under way, and the number completed

\* the state of the distributed run
dvars == << proc, coll, writing >>

vars == << cfg, device_count, has_autocast, pc, files, best_file, model_from,
           optim_from, start_epoch, cur_epoch, cur_iter, params,
           lr_epoch, mode_train, drop_prob, scaler, found_inf, pre_step,
           test_meter, loaders, trace, stored, shuffle_epoch, grads,
           grad_enabled, pre_test, proc, coll, writing >>

NoStep == [params |-> 0, exp |-> 0, inf |-> FALSE]
NoScaler == [on |-> FALSE, exp |-> 0, growth |-> 0]
NewScaler == [on |-> TRUE, exp |-> InitScaleExp, growth |-> 0]
NewTestMeter == [min_top1_err |-> NoBest, is_best |-> FALSE]
NoGrads == [passes |-> 0, clipped |-> FALSE]
NoWrites == [now |-> {}, done |-> 0]

Ev(op, ep, best) == [op |-> op, epoch |-> ep, best |-> best]

Max(S) == CHOOSE x \in S : \A y \in S : y <= x

\* -------------------------------------------------------- configuration
TrainCfgs ==
    [ mode : {"train"},
      NUM_GPUS : 1 .. MaxGpus,
      AUTO_RESUME : BOOLEAN,
      WEIGHTS : BOOLEAN,
      MAX_EPOCH : 0 .. MaxEpoch,
      CHECKPOINT_PERIOD : 1 .. MaxPeriod,
      EVAL_PERIOD : 1 .. MaxPeriod,
      AMP : BOOLEAN,
      PREC_TIME : BOOLEAN,
      DROP_PATH : BOOLEAN,
      PRECISE_BN : BOOLEAN,
      GRAD_CLIP : BOOLEAN ]

OtherCfgs ==
    [ mode : {"evaluate", "benchmark"},
      NUM_GPUS : 1 .. MaxGpus,
      AUTO_RESUME : {FALSE},
      WEIGHTS : {TRUE},
      MAX_EPOCH : {0},
      CHECKPOINT_PERIOD : {1},
      EVAL_PERIOD : {1},
      AMP : {FALSE},
      PREC_TIME : {TRUE},
      DROP_PATH : {FALSE},
      PRECISE_BN : {FALSE},
      GRAD_CLIP : {FALSE} ]

\* The checkpoint directory as an earlier run left it: empty, or holding
\* one checkpoint file.
InitFiles == {<< >>} \cup {[e \in {k} |-> FALSE] : k \in 0 .. MaxEpoch - 1}

\* What a process holds when it starts, given the configuration and the
\* checkpoint directory.
ProcessStart ==
    /\ pc = "setup_env"
    /\ model_from = "none"
    /\ optim_from = "none"
    /\ start_epoch = 0
    /\ cur_epoch = 0
    /\ cur_iter = 0
    /\ params = 0
    /\ lr_epoch = NoEpoch
    /\ mode_train = TRUE
    /\ drop_prob = << 0, 1 >>
    /\ scaler = NoScaler
    /\ found_inf = FALSE
    /\ pre_step = NoStep
    /\ test_meter = NewTestMeter
    /\ loaders = FALSE
    /\ shuffle_epoch = NoEpoch
    /\ grads = NoGrads
    /\ grad_enabled = TRUE
    /\ pre_test = [params |-> 0, lr_epoch |-> NoEpoch, optim_from |-> "none",
                   grads |-> NoGrads, grad_enabled |-> TRUE]

\* The machine a run starts on, and the checkpoint directory it finds.
Machine ==
    \* one accelerator device is present
    /\ device_count = 1
    \* the torch build has torch.cuda.amp.autocast
    /\ has_autocast = TRUE
    /\ files \in InitFiles
    /\ (cfg.mode # "train" => files = << >>)
    \* a directory that is not resumed from is empty or holds epoch 0's file
    /\ (~cfg.AUTO_RESUME => DOMAIN files \subseteq {0})
    /\ best_file = {}
    /\ stored = [files |-> files, best_file |-> best_file]
    /\ trace = << >>
    /\ proc = << >>
    /\ coll = 0
    /\ writing = NoWrites

Init ==
    /\ cfg \in TrainCfgs \cup OtherCfgs
    \* the optional steps of the loop are configured together, and not
    \* together with mixed precision
    /\ cfg.DROP_PATH = cfg.PRECISE_BN
    /\ (cfg.mode = "train" => cfg.PREC_TIME = cfg.PRECISE_BN)
    \* mixed precision is used in runs that do not resume
    /\ (cfg.AMP => ~cfg.PRECISE_BN /\ ~cfg.AUTO_RESUME)
    \* the clip threshold is set in the runs that start from given weights
    /\ (cfg.mode = "train" => cfg.GRAD_CLIP = cfg.WEIGHTS)
    /\ Machine
    /\ ProcessStart

\* ------------------------------------------------------ CheckpointStore
has_checkpoint(fs) == DOMAIN fs # {}

get_last_checkpoint(fs) == Max(DOMAIN fs)

\* load_checkpoint returns the epoch index stored in the record.
load_checkpoint(fs, e) == e

\* save_checkpoint writes the record to the path derived from the epoch
\* index, replacing what that path held.
save_checkpoint(fs, e, best) ==
    [k \in DOMAIN fs \cup {e} |-> IF k = e THEN best ELSE fs[k]]

\* ------------------------------------------------------------ TestMeter
\* An evaluation is the best one when its error is strictly below the
\* lowest seen so far.
Improved(err, best) == best = NoBest \/ err < best

UpdateTestMeter(m, err) ==
    [min_top1_err |-> IF Improved(err, m.min_top1_err) THEN err ELSE m.min_top1_err,
     is_best |-> Improved(err, m.min_top1_err)]

\* ----------------------------------------------------------- GradScaler
StepAlways(p, inf) == p + 1

\* scaler.step(optimizer): optimizer.step() unless the gradients hold inf/NaN.
ScalerStep(p, inf) == IF inf THEN p ELSE p + 1

Halve(e) == IF e <= ZeroExp THEN ZeroExp ELSE e - 1

Double(e) == IF e = ZeroExp \/ e >= MaxScaleExp THEN e ELSE e + 1

\* scaler.update(): back off on overflow, grow after GrowthInterval
\* consecutive clean steps.
ScalerUpdated(sc, inf) ==
    IF inf
    THEN [sc EXCEPT !.exp = Halve(sc.exp), !.growth = 0]
    ELSE IF sc.growth + 1 = GrowthInterval
         THEN [sc EXCEPT !.exp = Double(sc.exp), !.growth = 0]
         ELSE [sc EXCEPT !.growth = sc.growth + 1]

\* ----------------------------------------------------- train_model tests
UseAmp == cfg.AMP /\ has_autocast

DevicesUnchecked == TRUE

\* assert cfg.NUM_GPUS <= torch.cuda.device_count()
DevicesOk == cfg.NUM_GPUS <= device_count

ResumeUnlessWeights(fs) == cfg.AUTO_RESUME /\ has_checkpoint(fs) /\ ~cfg.WEIGHTS

\* if cfg.TRAIN.AUTO_RESUME and checkpoint.has_checkpoint()
ResumeFromLast(fs) == cfg.AUTO_RESUME /\ has_checkpoint(fs)

StartAtCheckpoint(e) == e

\* start_epoch = checkpoint_epoch + 1
StartAfter(e) == e + 1

InRangeInclusive(e) == e <= cfg.MAX_EPOCH

\* range(start_epoch, cfg.OPTIM.MAX_EPOCH)
InRange(e) == e < cfg.MAX_EPOCH

CheckpointDueAtIndex(e) == e % cfg.CHECKPOINT_PERIOD = 0

\* if (cur_epoch + 1) % cfg.TRAIN.CHECKPOINT_PERIOD == 0
CheckpointDue(e) == (e + 1) % cfg.CHECKPOINT_PERIOD = 0

EvalDuePeriodOnly(e) == (e + 1) % cfg.EVAL_PERIOD = 0

\* if next_epoch % cfg.TRAIN.EVAL_PERIOD == 0 or next_epoch == cfg.OPTIM.MAX_EPOCH
EvalDue(e) == (e + 1) % cfg.EVAL_PERIOD = 0 \/ e + 1 = cfg.MAX_EPOCH

BestNever(m) == FALSE

\* if test_meter.is_best
BestDue(m) == m.is_best

BestTagNext(e) == e + 1

\* the epoch argument of the best save
BestTag(e) == e

TestModelSavesBest == "save_best"

\* test_model ends with its test_epoch.
AfterTestModel == "done"

LoopOrderBnFirst ==
    << "drop_path", "precise_bn", "train_epoch", "save_checkpoint", "evaluate",
       "save_best", "empty_cache" >>

LoopOrderEvalFirst ==
    << "drop_path", "train_epoch", "precise_bn", "evaluate", "save_checkpoint",
       "save_best", "empty_cache" >>

\* the statements of the loop body, in the order of the source
LoopOrder ==
    << "drop_path", "train_epoch", "precise_bn", "save_checkpoint", "evaluate",
       "save_best", "empty_cache" >>

\* the statement after statement s of the loop body; after the last one the
\* loop header is next
StepAfter(s) ==
    LET i == CHOOSE k \in 1 .. Len(LoopOrder) : LoopOrder[k] = s
    IN IF i < Len(LoopOrder) THEN LoopOrder[i + 1] ELSE "loop"

\* drop_prob = cfg.DARTS.DROP_PATH_PROB * cur_epoch / cfg.OPTIM.MAX_EPOCH,
\* kept as the fraction cur_epoch / MAX_EPOCH of the base rate
DropProb(e) == << e, cfg.MAX_EPOCH >>

PeriodicTagNext(e) == e + 1

\* the epoch argument of the periodic save
PeriodicTag(e) == e

EpochLrSinceStart(e) == e - start_epoch

\* lr = optim.get_epoch_lr(cur_epoch), kept as the epoch index it is the
\* scheduled rate of
EpochLr(e) == e

TrainModeKept(m) == m

\* model.train()
TrainMode(m) == TRUE

\* model.eval()
EvalMode(m) == FALSE

\* if cfg.OPTIM.GRAD_CLIP > 0
ClipDue == cfg.GRAD_CLIP

\* optimizer.zero_grad()
ZeroGrad(g) == [passes |-> 0, clipped |-> FALSE]

\* loss.backward() adds the gradients of one pass to the buffers
Backward(g) == [g EXCEPT !.passes = g.passes + 1]

\* nn.utils.clip_grad_norm_(model.parameters(), cfg.OPTIM.GRAD_CLIP)
ClipGradNorm(g) == [g EXCEPT !.clipped = TRUE]

\* @torch.no_grad(): gradient tracking is off inside the function, and set
\* back to what it was when the function is left
NoGradEnter(prev) == FALSE

NoGradExit(prev) == prev

\* -------------------------------------------------------------- actions
setup_env ==
    /\ pc = "setup_env"
    /\ pc' = "setup_model"
    /\ trace' = Append(trace, Ev("setup_env", NoEpoch, FALSE))
    /\ UNCHANGED << cfg, device_count, has_autocast, dvars, stored,
                    shuffle_epoch, grads, grad_enabled, pre_test, files, best_file, model_from,
                    optim_from, start_epoch, cur_epoch, cur_iter, params, lr_epoch,
                    mode_train, drop_prob, scaler, found_inf, pre_step, test_meter,
                    loaders >>

\* build_model, then the device assertion; the assertion error ends the run.
setup_model ==
    /\ pc = "setup_model"
    /\ model_from' = "built"
    /\ pc' = IF ~DevicesOk THEN "failed"
             ELSE IF cfg.mode = "evaluate" THEN "load"
             ELSE "construct_optimizer"
    /\ trace' = Append(trace, Ev("build_model", NoEpoch, FALSE))
    /\ UNCHANGED << cfg, device_count, has_autocast, dvars, stored,
                    shuffle_epoch, grads, grad_enabled, pre_test, files, best_file,
                    optim_from, start_epoch, cur_epoch, cur_iter, params, lr_epoch,
                    mode_train, drop_prob, scaler, found_inf, pre_step, test_meter,
                    loaders >>

\* build_loss_fun, and in train mode construct_optimizer.
construct_optimizer ==
    /\ pc = "construct_optimizer"
    /\ optim_from' = IF cfg.mode = "train" THEN "constructed" ELSE optim_from
    /\ pc' = IF cfg.mode = "train" THEN "load" ELSE "construct_loaders"
    /\ UNCHANGED << cfg, device_count, has_autocast, dvars, stored,
                    shuffle_epoch, grads, grad_enabled, pre_test, files, best_file, model_from,
                    start_epoch, cur_epoch, cur_iter, params, lr_epoch,
                    mode_train, drop_prob, scaler, found_inf, pre_step, test_meter,
                    loaders, trace >>

\* Load checkpoint or initial weights (train_model), model weights (test_model).
load_weights ==
    /\ pc = "load"
    /\ IF cfg.mode = "train"
       THEN IF ResumeFromLast(files)
            THEN /\ model_from' = "last_checkpoint"
                 /\ optim_from' = "last_checkpoint"
                 /\ start_epoch' = StartAfter(load_checkpoint(files, get_last_checkpoint(files)))
                 /\ lr_epoch' = load_checkpoint(files, get_last_checkpoint(files))
                 /\ trace' = Append(trace, Ev("load_checkpoint", get_last_checkpoint(files), FALSE))
            ELSE IF cfg.WEIGHTS
                 THEN /\ model_from' = "weights"
                      /\ trace' = Append(trace, Ev("load_weights", NoEpoch, FALSE))
                      /\ UNCHANGED << optim_from, start_epoch, lr_epoch >>
                 ELSE UNCHANGED << model_from, optim_from, start_epoch, lr_epoch,
                                   trace >>
       ELSE /\ model_from' = "weights"
            /\ trace' = Append(trace, Ev("load_weights", NoEpoch, FALSE))
            /\ UNCHANGED << optim_from, start_epoch, lr_epoch >>
    /\ pc' = "construct_loaders"
    /\ UNCHANGED << cfg, device_count, has_autocast, dvars, stored,
                    shuffle_epoch, grads, grad_enabled, pre_test, files, best_file,
                    cur_epoch, cur_iter, params,
                    mode_train, drop_prob, scaler, found_inf, pre_step, test_meter,
                    loaders >>

\* Create data loaders and meters.
construct_loaders ==
    /\ pc = "construct_loaders"
    /\ loaders' = TRUE
    /\ test_meter' = NewTestMeter
    /\ pc' = IF cfg.mode = "evaluate" THEN "test_epoch" ELSE "compute_time"
    /\ trace' = Append(trace, Ev("construct_loaders", NoEpoch, FALSE))
    /\ UNCHANGED << cfg, device_count, has_autocast, dvars, stored,
                    shuffle_epoch, grads, grad_enabled, pre_test, files, best_file, model_from,
                    optim_from, start_epoch, cur_epoch, cur_iter, params, lr_epoch,
                    mode_train, drop_prob, scaler, found_inf, pre_step >>

\* Compute model and loader timings; in train mode, then enter the loop.
compute_time_full ==
    /\ pc = "compute_time"
    /\ trace' = IF cfg.mode = "benchmark" \/ (start_epoch = 0 /\ cfg.PREC_TIME)
                THEN Append(trace, Ev("compute_time_full", NoEpoch, FALSE))
                ELSE trace
    /\ cur_epoch' = start_epoch
    /\ pc' = IF cfg.mode = "benchmark" THEN "done" ELSE "loop"
    /\ UNCHANGED << cfg, device_count, has_autocast, dvars, stored,
                    shuffle_epoch, grads, grad_enabled, pre_test, files, best_file, model_from,
                    optim_from, start_epoch, cur_iter, params, lr_epoch,
                    mode_train, drop_prob, scaler, found_inf, pre_step, test_meter,
                    loaders >>

\* for cur_epoch in range(start_epoch, cfg.OPTIM.MAX_EPOCH)
epoch_loop ==
    /\ pc = "loop"
    /\ pc' = IF InRange(cur_epoch) THEN LoopOrder[1] ELSE "done"
    /\ UNCHANGED << cfg, device_count, has_autocast, dvars, stored,
                    shuffle_epoch, grads, grad_enabled, pre_test, files, best_file, model_from,
                    optim_from, start_epoch, cur_epoch, cur_iter, params, lr_epoch,
                    mode_train, drop_prob, scaler, found_inf, pre_step, test_meter,
                    loaders, trace >>

drop_path ==
    /\ pc = "drop_path"
    /\ IF cfg.DROP_PATH
       THEN /\ drop_prob' = DropProb(cur_epoch)
            /\ trace' = Append(trace, Ev("drop_path_prob", cur_epoch, FALSE))
       ELSE UNCHANGED << drop_prob, trace >>
    /\ pc' = StepAfter("drop_path")
    /\ UNCHANGED << cfg, device_count, has_autocast, dvars, stored,
                    shuffle_epoch, grads, grad_enabled, pre_test, files, best_file, model_from,
                    optim_from, start_epoch, cur_epoch, cur_iter, params, lr_epoch,
                    mode_train, scaler, found_inf, pre_step, test_meter, loaders >>

\* train_epoch up to the mini-batch loop: shuffle, set_lr, model.train(),
\* and a new GradScaler when mixed precision is in use.
train_epoch_begin ==
    /\ pc = "train_epoch"
    /\ shuffle_epoch' = cur_epoch
    /\ lr_epoch' = EpochLr(cur_epoch)
    /\ mode_train' = TrainMode(mode_train)
    /\ scaler' = IF UseAmp THEN NewScaler ELSE NoScaler
    /\ cur_iter' = 0
    /\ pc' = "train_iter"
    /\ UNCHANGED << cfg, device_count, has_autocast, dvars, stored,
                    grads, grad_enabled, pre_test, files, best_file, model_from,
                    optim_from, start_epoch, cur_epoch, params,
                    drop_prob, found_inf, pre_step, test_meter, loaders, trace >>

\* Forward pass, zero_grad and backward pass of one mini-batch.  Under
\* mixed precision the scaled gradients may come out inf/NaN.
backward ==
    /\ pc = "train_iter"
    /\ cur_iter < NumBatches
    /\ grads' = Backward(ZeroGrad(grads))
    /\ found_inf' \in (IF scaler.on THEN BOOLEAN ELSE {FALSE})
    /\ pre_step' = [params |-> params, exp |-> scaler.exp, inf |-> found_inf']
    /\ pc' = "optim_step"
    /\ UNCHANGED << cfg, device_count, has_autocast, dvars, stored,
                    shuffle_epoch, grad_enabled, pre_test, files, best_file, model_from,
                    optim_from, start_epoch, cur_epoch, cur_iter, params, lr_epoch,
                    mode_train, drop_prob, scaler, test_meter, loaders, trace >>

\* scaler.step(optimizer) under mixed precision, else optimizer.step().
optim_step ==
    /\ pc = "optim_step"
    /\ grads' = IF ~scaler.on /\ ClipDue THEN ClipGradNorm(grads) ELSE grads
    /\ params' = IF scaler.on THEN ScalerStep(params, found_inf) ELSE params + 1
    /\ pc' = IF scaler.on THEN "scaler_update" ELSE "iter_stats"
    /\ UNCHANGED << cfg, device_count, has_autocast, dvars, stored,
                    shuffle_epoch, grad_enabled, pre_test, files, best_file, model_from,
                    optim_from, start_epoch, cur_epoch, cur_iter, lr_epoch,
                    mode_train, drop_prob, scaler, found_inf, pre_step, test_meter,
                    loaders, trace >>

scaler_update ==
    /\ pc = "scaler_update"
    /\ scaler' = ScalerUpdated(scaler, found_inf)
    /\ found_inf' = FALSE
    /\ pc' = "iter_stats"
    /\ UNCHANGED << cfg, device_count, has_autocast, dvars, stored,
                    shuffle_epoch, grads, grad_enabled, pre_test, files, best_file, model_from,
                    optim_from, start_epoch, cur_epoch, cur_iter, params, lr_epoch,
                    mode_train, drop_prob, pre_step, test_meter,
                    loaders, trace >>

\* Errors, cross-device reduction and meter update of one mini-batch.
iter_stats ==
    /\ pc = "iter_stats"
    /\ cur_iter' = cur_iter + 1
    /\ pre_step' = NoStep
    /\ pc' = "train_iter"
    /\ UNCHANGED << cfg, device_count, has_autocast, dvars, stored,
                    shuffle_epoch, grads, grad_enabled, pre_test, files, best_file, model_from,
                    optim_from, start_epoch, cur_epoch, params, lr_epoch,
                    mode_train, drop_prob, scaler, found_inf, test_meter,
                    loaders, trace >>

\* Log epoch stats and reset the train meter.
train_epoch_end ==
    /\ pc = "train_iter"
    /\ cur_iter >= NumBatches
    /\ trace' = Append(trace, Ev("train_epoch", cur_epoch, FALSE))
    /\ scaler' = NoScaler
    /\ pc' = StepAfter("train_epoch")
    /\ UNCHANGED << cfg, device_count, has_autocast, dvars, stored,
                    shuffle_epoch, grads, grad_enabled, pre_test, files, best_file, model_from,
                    optim_from, start_epoch, cur_epoch, cur_iter, params, lr_epoch,
                    mode_train, drop_prob, found_inf, pre_step, test_meter, loaders >>

precise_bn ==
    /\ pc = "precise_bn"
    /\ trace' = IF cfg.PRECISE_BN
                THEN Append(trace, Ev("precise_bn", cur_epoch, FALSE))
                ELSE trace
    /\ pc' = StepAfter("precise_bn")
    /\ UNCHANGED << cfg, device_count, has_autocast, dvars, stored,
                    shuffle_epoch, grads, grad_enabled, pre_test, files, best_file, model_from,
                    optim_from, start_epoch, cur_epoch, cur_iter, params, lr_epoch,
                    mode_train, drop_prob, scaler, found_inf, pre_step, test_meter,
                    loaders >>

\* Save a checkpoint.
save_periodic ==
    /\ pc = "save_checkpoint"
    /\ IF CheckpointDue(cur_epoch)
       THEN /\ files' = save_checkpoint(files, PeriodicTag(cur_epoch), FALSE)
            /\ stored' = [files |-> files', best_file |-> best_file]
            /\ trace' = Append(trace, Ev("save_checkpoint", PeriodicTag(cur_epoch), FALSE))
       ELSE UNCHANGED << files, stored, trace >>
    /\ pc' = StepAfter("save_checkpoint")
    /\ UNCHANGED << cfg, device_count, has_autocast, dvars,
                    shuffle_epoch, grads, grad_enabled, pre_test, best_file, model_from,
                    optim_from, start_epoch, cur_epoch, cur_iter, params, lr_epoch,
                    mode_train, drop_prob, scaler, found_inf, pre_step, test_meter,
                    loaders >>

\* Evaluate the model.
evaluate ==
    /\ pc = "evaluate"
    /\ pc' = IF EvalDue(cur_epoch) THEN "test_epoch" ELSE StepAfter("evaluate")
    /\ UNCHANGED << cfg, device_count, has_autocast, dvars, stored,
                    shuffle_epoch, grads, grad_enabled, pre_test, files, best_file, model_from,
                    optim_from, start_epoch, cur_epoch, cur_iter, params, lr_epoch,
                    mode_train, drop_prob, scaler, found_inf, pre_step, test_meter,
                    loaders, trace >>

test_epoch_begin ==
    /\ pc = "test_epoch"
    /\ pre_test' = [params |-> params, lr_epoch |-> lr_epoch,
                    optim_from |-> optim_from, grads |-> grads,
                    grad_enabled |-> grad_enabled]
    /\ grad_enabled' = NoGradEnter(grad_enabled)
    /\ mode_train' = EvalMode(mode_train)
    /\ cur_iter' = 0
    /\ pc' = "test_iter"
    /\ UNCHANGED << cfg, device_count, has_autocast, dvars, stored,
                    shuffle_epoch, grads, files, best_file, model_from,
                    optim_from, start_epoch, cur_epoch, params, lr_epoch,
                    drop_prob, scaler, found_inf, pre_step, test_meter, loaders,
                    trace >>

test_iter ==
    /\ pc = "test_iter"
    /\ cur_iter < NumBatches
    /\ cur_iter' = cur_iter + 1
    /\ UNCHANGED << cfg, device_count, has_autocast, dvars, stored,
                    shuffle_epoch, grads, grad_enabled, pre_test, pc, files, best_file, model_from,
                    optim_from, start_epoch, cur_epoch, params, lr_epoch, mode_train,
                    drop_prob, scaler, found_inf, pre_step, test_meter, loaders,
                    trace >>

\* An exception raised in a mini-batch of test_epoch (placing the inputs on
\* the device, the forward pass) leaves the function through the no_grad
\* decorator and ends the run.
test_iter_raise ==
    /\ pc = "test_iter"
    /\ cur_iter < NumBatches
    /\ grad_enabled' = NoGradExit(pre_test.grad_enabled)
    /\ pc' = "failed"
    /\ UNCHANGED << cfg, device_count, has_autocast, dvars, stored,
                    shuffle_epoch, grads, pre_test, files, best_file, model_from,
                    optim_from, start_epoch, cur_epoch, cur_iter, params, lr_epoch,
                    mode_train, drop_prob, scaler, found_inf, pre_step, test_meter,
                    loaders, trace >>

\* Log epoch stats of the test meter; err is the epoch's top-1 error.
test_epoch_end ==
    /\ pc = "test_iter"
    /\ cur_iter >= NumBatches
    /\ \E err \in Errs : test_meter' = UpdateTestMeter(test_meter, err)
    /\ trace' = Append(trace, Ev("test_epoch", cur_epoch, test_meter'.is_best))
    /\ grad_enabled' = NoGradExit(pre_test.grad_enabled)
    /\ pc' = IF cfg.mode = "evaluate" THEN AfterTestModel ELSE StepAfter("evaluate")
    /\ UNCHANGED << cfg, device_count, has_autocast, dvars, stored,
                    shuffle_epoch, grads, pre_test, files, best_file, model_from,
                    optim_from, start_epoch, cur_epoch, cur_iter, params, lr_epoch,
                    mode_train, drop_prob, scaler, found_inf, pre_step, loaders >>

\* save best
save_best ==
    /\ pc = "save_best"
    /\ IF BestDue(test_meter)
       THEN /\ files' = save_checkpoint(files, BestTag(cur_epoch), TRUE)
            /\ best_file' = {BestTag(cur_epoch)}
            /\ stored' = [files |-> files', best_file |-> best_file']
            /\ trace' = Append(trace, Ev("save_checkpoint", BestTag(cur_epoch), TRUE))
       ELSE UNCHANGED << files, best_file, stored, trace >>
    /\ pc' = StepAfter("save_best")
    /\ UNCHANGED << cfg, device_count, has_autocast, dvars,
                    shuffle_epoch, grads, grad_enabled, pre_test, model_from,
                    optim_from, start_epoch, cur_epoch, cur_iter, params, lr_epoch,
                    mode_train, drop_prob, scaler, found_inf, pre_step, test_meter,
                    loaders >>

\* synchronize, empty_cache, gc.collect; then the next epoch index.
empty_cache ==
    /\ pc = "empty_cache"
    /\ trace' = Append(trace, Ev("empty_cache", cur_epoch, FALSE))
    /\ cur_epoch' = cur_epoch + 1
    /\ pc' = StepAfter("empty_cache")
    /\ UNCHANGED << cfg, device_count, has_autocast, dvars, stored,
                    shuffle_epoch, grads, grad_enabled, pre_test, files, best_file, model_from,
                    optim_from, start_epoch, cur_iter, params, lr_epoch,
                    mode_train, drop_prob, scaler, found_inf, pre_step, test_meter,
                    loaders >>

Next ==
    \/ setup_env
    \/ setup_model
    \/ construct_optimizer
    \/ load_weights
    \/ construct_loaders
    \/ compute_time_full
    \/ epoch_loop
    \/ drop_path
    \/ train_epoch_begin
    \/ backward
    \/ optim_step
    \/ scaler_update
    \/ iter_stats
    \/ train_epoch_end
    \/ precise_bn
    \/ save_periodic
    \/ evaluate
    \/ test_epoch_begin
    \/ test_iter
    \/ test_iter_raise
    \/ test_epoch_end
    \/ save_best
    \/ empty_cache

Spec == Init /\ [][Next]_vars

\* The single thread of control always takes its next step.
FairSpec == Spec /\ WF_vars(Next)

\* ------------------------------------------- termination and restart
\* the positions inside the mini-batch loops of train_epoch and test_epoch
MiniBatchPcs == {"train_iter", "optim_step", "scaler_update", "iter_stats", "test_iter"}

\* the epoch of the checkpoint a run of this trace wrote or loaded last,
\* NoEpoch when it did neither
LastSavedEpoch(tr) ==
    LET at == {i \in 1 .. Len(tr) :
                  tr[i].op \in {"save_checkpoint", "load_checkpoint", "restart"}}
    IN IF at = {} THEN NoEpoch ELSE tr[Max(at)].epoch

\* The process is terminated from outside while it works on a mini-batch.
kill ==
    /\ pc \in MiniBatchPcs
    /\ Cardinality({i \in 1 .. Len(trace) : trace[i].op = "restart"}) < MaxCrashes
    /\ pc' = "killed"
    /\ UNCHANGED << cfg, device_count, has_autocast, dvars, stored,
                    shuffle_epoch, grads, grad_enabled, pre_test, files, best_file,
                    model_from, optim_from, start_epoch, cur_epoch, cur_iter, params,
                    lr_epoch, mode_train, drop_prob, scaler, found_inf, pre_step,
                    test_meter, loaders, trace >>

\* train_model is started again, with the same configuration, on the
\* checkpoint directory the terminated process left; the trace of the new
\* run starts with what the old one saved last.
restart ==
    /\ pc = "killed"
    /\ pc' = "setup_env"
    /\ model_from' = "none"
    /\ optim_from' = "none"
    /\ start_epoch' = 0
    /\ cur_epoch' = 0
    /\ cur_iter' = 0
    /\ params' = 0
    /\ lr_epoch' = NoEpoch
    /\ mode_train' = TRUE
    /\ drop_prob' = << 0, 1 >>
    /\ scaler' = NoScaler
    /\ found_inf' = FALSE
    /\ pre_step' = NoStep
    /\ test_meter' = NewTestMeter
    /\ loaders' = FALSE
    /\ shuffle_epoch' = NoEpoch
    /\ grads' = NoGrads
    /\ grad_enabled' = TRUE
    /\ pre_test' = [params |-> 0, lr_epoch |-> NoEpoch, optim_from |-> "none",
                    grads |-> NoGrads, grad_enabled |-> TRUE]
    /\ trace' = Append(SelectSeq(trace, LAMBDA ev : ev.op = "restart"),
                       Ev("restart", LastSavedEpoch(trace), FALSE))
    /\ UNCHANGED << cfg, device_count, has_autocast, dvars, stored, files,
                    best_file >>

\* A training run with auto-resume, on one device, that may be terminated
\* and started again.
CrashInit ==
    /\ cfg \in TrainCfgs
    /\ cfg.AUTO_RESUME /\ cfg.NUM_GPUS = 1
    /\ ~cfg.WEIGHTS /\ ~cfg.GRAD_CLIP
    /\ ~cfg.PREC_TIME /\ ~cfg.DROP_PATH /\ ~cfg.PRECISE_BN
    \* mixed precision in short runs on an empty directory
    /\ (cfg.AMP => cfg.MAX_EPOCH <= 1 /\ cfg.CHECKPOINT_PERIOD = 1 /\ files = << >>)
    /\ Machine
    /\ ProcessStart

CrashNext == Next \/ kill \/ restart

CrashSpec == CrashInit /\ [][CrashNext]_vars

\* ------------------------------------------------ the distributed run
\* One process per device runs the epoch loop of train_model; the
\* processes meet in the cross-device reductions of train_epoch and
\* test_epoch and in the barrier of save_checkpoint.  A process is
\* [pc, epoch, iter, meter, err, sent, n, last]: its position, its epoch
\* and mini-batch index, its TestMeter, the top-1 error it has accumulated
\* in the running test_epoch, what it contributes to the collective it is
\* in, the number of collectives it has entered and the one it entered last.
seqvars == << cfg, device_count, has_autocast, pc, model_from, optim_from,
              start_epoch, cur_epoch, cur_iter, params, lr_epoch, mode_train,
              drop_prob, scaler, found_inf, pre_step, test_meter, loaders, trace,
              stored, shuffle_epoch, grads, grad_enabled, pre_test >>

Ranks == 0 .. cfg.NUM_GPUS - 1

AnyProc(r) == TRUE

\* dist.is_master_proc(): the process of rank 0 is the leader
is_master_proc(r) == r = 0

SaveCallerMasterOnly(r) == is_master_proc(r)

\* checkpoint.save_checkpoint(...) is called by every process
SaveCaller(r) == TRUE

RECURSIVE SumUpTo(_, _)
SumUpTo(f, n) == IF n < 0 THEN 0 ELSE f[n] + SumUpTo(f, n - 1)

\* dist.scaled_all_reduce: the sum of the contributions, scaled by
\* 1 / NUM_GPUS; the value is kept as the sum
scaled_all_reduce(vals) == SumUpTo(vals, cfg.NUM_GPUS - 1)

LocalErr(local, reduced) == local

\* top1_err, top5_err = dist.scaled_all_reduce([top1_err, top5_err])
ReducedErr(local, reduced) == reduced

NoColl == [kind |-> "none", epoch |-> NoEpoch, best |-> FALSE]

NewProc == [pc |-> "loop", epoch |-> 0, iter |-> 0, meter |-> NewTestMeter,
            err |-> 0, sent |-> 0, n |-> 0, last |-> NoColl]

\* A fresh training run on NUM_GPUS >= 2 devices, after every process has
\* built and wrapped the model and constructed its loaders and meters.
DistInit ==
    /\ cfg \in TrainCfgs
    /\ cfg.NUM_GPUS >= 2
    /\ cfg.MAX_EPOCH = DistEpochs
    /\ ~cfg.AUTO_RESUME /\ ~cfg.WEIGHTS /\ ~cfg.AMP /\ ~cfg.GRAD_CLIP
    /\ ~cfg.PREC_TIME /\ ~cfg.DROP_PATH /\ ~cfg.PRECISE_BN
    /\ device_count = cfg.NUM_GPUS
    /\ has_autocast = TRUE
    /\ files = << >>
    /\ best_file = {}
    /\ stored = [files |-> files, best_file |-> best_file]
    /\ trace = << >>
    /\ ProcessStart
    /\ proc = [r \in Ranks |-> NewProc]
    /\ coll = 0
    /\ writing = NoWrites

\* Process r enters a collective with contribution val; the process that
\* enters last completes the reduction.
Enter(r, entry, val, next) ==
    /\ proc' = [proc EXCEPT ![r].n = @ + 1,
                            ![r].last = entry,
                            ![r].sent = val,
                            ![r].pc = next]
    /\ coll' = IF \A q \in Ranks \ {r} : proc[q].n > proc[r].n
               THEN scaled_all_reduce([q \in Ranks |->
                                          IF q = r THEN val ELSE proc[q].sent])
               ELSE coll

\* The collective process r is in has been entered by every process.  (A
\* process that has entered the next one already has left this one.)
Complete(r) ==
    \A q \in Ranks :
        /\ proc[q].n >= proc[r].n
        /\ (proc[q].n = proc[r].n => proc[q].last = proc[r].last)

\* the position after the periodic save: test_epoch when due, else the
\* best save
AfterPeriodic(e) == IF EvalDue(e) THEN "test_iter" ELSE "save_best"

\* The loop header for the first epoch.
d_epoch_loop(r) ==
    /\ proc[r].pc = "loop"
    /\ proc' = [proc EXCEPT ![r].pc = IF InRange(proc[r].epoch) THEN "train_iter"
                                                               ELSE "done",
                            ![r].iter = 0]
    /\ UNCHANGED << seqvars, files, best_file, coll, writing >>

\* A training mini-batch up to the reduction of its loss and errors.
d_train_reduce(r) ==
    /\ proc[r].pc = "train_iter"
    /\ proc[r].iter < DistBatches
    /\ Enter(r, [kind |-> "reduce_train", epoch |-> proc[r].epoch, best |-> FALSE],
             0, "train_reduce")
    /\ UNCHANGED << seqvars, files, best_file, writing >>

\* The rest of the mini-batch, and after the last one the rest of
\* train_epoch.
d_train_reduced(r) ==
    /\ proc[r].pc = "train_reduce"
    /\ Complete(r)
    /\ proc' = [proc EXCEPT ![r].iter = @ + 1,
                            ![r].pc = IF proc[r].iter + 1 < DistBatches
                                      THEN "train_iter" ELSE "save_checkpoint"]
    /\ UNCHANGED << seqvars, files, best_file, coll, writing >>

\* save_checkpoint in process r: the leader starts to write the file, every
\* other process goes to the barrier.
StartSave(r, best) ==
    IF is_master_proc(r)
    THEN /\ proc' = [proc EXCEPT ![r].pc = IF best THEN "write_best"
                                                   ELSE "write_periodic"]
         /\ writing' = [writing EXCEPT
                           !.now = @ \cup {[rank |-> r, epoch |-> proc[r].epoch]}]
         /\ UNCHANGED coll
    ELSE /\ Enter(r, [kind |-> "save", epoch |-> proc[r].epoch, best |-> best], 0,
                  IF best THEN "barrier_best" ELSE "barrier_periodic")
         /\ UNCHANGED writing

d_save_periodic(r) ==
    /\ proc[r].pc = "save_checkpoint"
    /\ IF CheckpointDue(proc[r].epoch) /\ SaveCaller(r)
       THEN StartSave(r, FALSE)
       ELSE /\ proc' = [proc EXCEPT ![r].pc = AfterPeriodic(proc[r].epoch),
                                    ![r].iter = 0]
            /\ UNCHANGED << coll, writing >>
    /\ UNCHANGED << seqvars, files, best_file >>

\* The write is completed; the writer goes to the barrier.
d_write(r) ==
    /\ proc[r].pc \in {"write_periodic", "write_best"}
    /\ LET best == proc[r].pc = "write_best"
       IN /\ files' = save_checkpoint(files, proc[r].epoch, best)
          /\ best_file' = IF best THEN {proc[r].epoch} ELSE best_file
          /\ Enter(r, [kind |-> "save", epoch |-> proc[r].epoch, best |-> best], 0,
                   IF best THEN "barrier_best" ELSE "barrier_periodic")
    /\ writing' = [now |-> writing.now \ {[rank |-> r, epoch |-> proc[r].epoch]},
                   done |-> writing.done + 1]
    /\ UNCHANGED seqvars

\* Leave the barrier of save_checkpoint.
d_saved(r) ==
    /\ proc[r].pc \in {"barrier_periodic", "barrier_best"}
    /\ Complete(r)
    /\ proc' = [proc EXCEPT ![r].pc = IF proc[r].pc = "barrier_best"
                                      THEN "empty_cache"
                                      ELSE AfterPeriodic(proc[r].epoch),
                            ![r].iter = 0]
    /\ UNCHANGED << seqvars, files, best_file, coll, writing >>

\* A test mini-batch up to the reduction of its errors; err is the top-1
\* error of the process's own shard.
d_test_reduce(r) ==
    /\ proc[r].pc = "test_iter"
    /\ proc[r].iter < DistBatches
    /\ \E err \in Errs :
          Enter(r, [kind |-> "reduce_test", epoch |-> proc[r].epoch, best |-> FALSE],
                err, "test_reduce")
    /\ UNCHANGED << seqvars, files, best_file, writing >>

\* The rest of the mini-batch, and after the last one the rest of
\* test_epoch: the epoch's error goes to the TestMeter.
d_test_reduced(r) ==
    /\ proc[r].pc = "test_reduce"
    /\ Complete(r)
    /\ LET err == proc[r].err + ReducedErr(proc[r].sent, coll)
       IN proc' = IF proc[r].iter + 1 < DistBatches
                  THEN [proc EXCEPT ![r].err = err,
                                    ![r].sent = 0,
                                    ![r].iter = @ + 1,
                                    ![r].pc = "test_iter"]
                  ELSE [proc EXCEPT ![r].meter = UpdateTestMeter(@, err),
                                    ![r].err = 0,
                                    ![r].sent = 0,
                                    ![r].iter = @ + 1,
                                    ![r].pc = "save_best"]
    /\ UNCHANGED << seqvars, files, best_file, coll, writing >>

d_save_best(r) ==
    /\ proc[r].pc = "save_best"
    /\ IF BestDue(proc[r].meter) /\ SaveCaller(r)
       THEN StartSave(r, TRUE)
       ELSE /\ proc' = [proc EXCEPT ![r].pc = "empty_cache"]
            /\ UNCHANGED << coll, writing >>
    /\ UNCHANGED << seqvars, files, best_file >>

\* The end of the loop body, and the loop header for the next epoch.
d_empty_cache(r) ==
    /\ proc[r].pc = "empty_cache"
    /\ proc' = [proc EXCEPT ![r].epoch = @ + 1,
                            ![r].iter = 0,
                            ![r].pc = IF InRange(proc[r].epoch + 1) THEN "train_iter"
                                                                   ELSE "done"]
    /\ UNCHANGED << seqvars, files, best_file, coll, writing >>

DistNext ==
    \/ \E r \in Ranks : d_epoch_loop(r)
    \/ \E r \in Ranks : d_train_reduce(r)
    \/ \E r \in Ranks : d_train_reduced(r)
    \/ \E r \in Ranks : d_save_periodic(r)
    \/ \E r \in Ranks : d_write(r)
    \/ \E r \in Ranks : d_saved(r)
    \/ \E r \in Ranks : d_test_reduce(r)
    \/ \E r \in Ranks : d_test_reduced(r)
    \/ \E r \in Ranks : d_save_best(r)
    \/ \E r \in Ranks : d_empty_cache(r)

DistSpec == DistInit /\ [][DistNext]_vars

\* ------------------------------------------------- reading the trace
Idx == 1 .. Len(trace)

Count(op, e) == Cardinality({i \in Idx : trace[i].op = op /\ trace[i].epoch = e})

CountOp(op) == Cardinality({i \in Idx : trace[i].op = op})

CountSaves(e, best) ==
    Cardinality({i \in Idx : /\ trace[i].op = "save_checkpoint"
                             /\ trace[i].epoch = e
                             /\ trace[i].best = best})

OpSeq(op) == SelectSeq(trace, LAMBDA ev : ev.op = op)

\* epoch indices train_epoch has completed, in order
TrainedEpochs == [i \in 1 .. Len(OpSeq("train_epoch")) |-> OpSeq("train_epoch")[i].epoch]

\* the saves of this run, in order
Saves == OpSeq("save_checkpoint")

\* epochs whose loop body has run to its end
Finished == {trace[i].epoch : i \in {j \in Idx : trace[j].op = "empty_cache"}}

Terminal == pc \in {"done", "failed"}

EpochsToRun == IF cfg.MAX_EPOCH > start_epoch THEN cfg.MAX_EPOCH - start_epoch ELSE 0

\* ----------------------------------------------------------------- C1
\* C1: in train mode, right after the load step: with auto-resume on and a
\* checkpoint present, model and optimizer come from the last checkpoint and
\* start_epoch is its epoch + 1 (even when initial weights are configured);
\* otherwise with initial weights configured only the model is loaded and
\* start_epoch is 0; otherwise nothing is loaded and start_epoch is 0.
C1_StartEpochResolved ==
    (cfg.mode = "train" /\ pc = "construct_loaders") =>
        IF cfg.AUTO_RESUME /\ DOMAIN files # {}
        THEN /\ model_from = "last_checkpoint"
             /\ optim_from = "last_checkpoint"
             /\ start_epoch = Max(DOMAIN files) + 1
             /\ CountOp("load_weights") = 0
        ELSE IF cfg.WEIGHTS
        THEN /\ model_from = "weights"
             /\ optim_from = "constructed"
             /\ start_epoch = 0
             /\ CountOp("load_checkpoint") = 0
        ELSE /\ model_from = "built"
             /\ optim_from = "constructed"
             /\ start_epoch = 0
             /\ CountOp("load_checkpoint") + CountOp("load_weights") = 0

C1_Witness ==
    /\ cfg.mode = "train" /\ pc = "construct_loaders"
    /\ cfg.AUTO_RESUME /\ cfg.WEIGHTS /\ DOMAIN files # {}
    /\ model_from = "last_checkpoint" /\ start_epoch > 0

\* ----------------------------------------------------------------- C2
\* C2: the epochs trained so far are start_epoch, start_epoch + 1, ... with
\* none skipped or repeated and none at or beyond MAX_EPOCH; the run cannot
\* stop before its end; at the end every index of [start_epoch, MAX_EPOCH)
\* has been trained, and when the range is empty nothing was trained,
\* evaluated or saved.
C2_EpochRange ==
    cfg.mode = "train" =>
        /\ (~Terminal => ENABLED Next)
        /\ cur_iter <= NumBatches
        /\ (pc \in {"precise_bn", "done"} =>
              LET t == TrainedEpochs IN
              /\ Len(t) <= EpochsToRun
              /\ \A i \in 1 .. Len(t) : t[i] = start_epoch + i - 1
              /\ (pc = "done" => Len(t) = EpochsToRun))
        /\ (pc = "done" =>
              /\ (start_epoch >= cfg.MAX_EPOCH =>
                    \A i \in Idx : trace[i].op \notin
                        {"train_epoch", "test_epoch", "save_checkpoint"}))

C2_Witness ==
    /\ cfg.mode = "train" /\ pc = "done"
    /\ start_epoch > 0
    /\ Len(TrainedEpochs) >= 2

\* ----------------------------------------------------------------- C3
ResumedAt3Of5 ==
    /\ cfg.mode = "train" /\ cfg.AUTO_RESUME /\ cfg.MAX_EPOCH = 5
    /\ Count("load_checkpoint", 3) = 1
    /\ pc = "done"

\* C3 as stated: resuming from a checkpoint at epoch 3 with max_epoch 5
\* starts at epoch 4 and trains two more epochs, 4 and 5.
C3_TwoMoreEpochs ==
    ResumedAt3Of5 => start_epoch = 4 /\ TrainedEpochs = << 4, 5 >>

\* C3 amended: resuming from a checkpoint at epoch 3 with max_epoch 5
\* starts at epoch 4 and trains exactly one more epoch, index 4; no epoch
\* with index <= 3 is trained again.
C3_OneMoreEpoch ==
    ResumedAt3Of5 => start_epoch = 4 /\ TrainedEpochs = << 4 >>

C3_Witness == ResumedAt3Of5 /\ Len(TrainedEpochs) = 1

\* ----------------------------------------------------------------- C4
\* C4: an epoch whose loop body has ended wrote one periodic (non-best)
\* checkpoint tagged with its index when (e + 1) mod checkpoint_period = 0
\* and none otherwise, whatever evaluation and best save did.
C4_PeriodicCheckpoint ==
    pc \in {"loop", "done"} =>
    \A e \in Finished :
        CountSaves(e, FALSE) = IF (e + 1) % cfg.CHECKPOINT_PERIOD = 0 THEN 1 ELSE 0

\* a periodic save in an epoch with no evaluation and no best save, and
\* one in an epoch with an evaluation and a best save
C4_Witness ==
    /\ pc = "loop"
    /\ \E e \in Finished :
          CountSaves(e, FALSE) = 1 /\ Count("test_epoch", e) = 0 /\ CountSaves(e, TRUE) = 0
    /\ \E e \in Finished :
          CountSaves(e, FALSE) = 1 /\ Count("test_epoch", e) = 1 /\ CountSaves(e, TRUE) = 1

\* ----------------------------------------------------------------- C5
\* C5: an epoch whose loop body has ended ran test_epoch once when
\* (e + 1) mod eval_period = 0 or e + 1 = max_epoch, and not at all
\* otherwise; a finished run that trained an epoch evaluated the last one.
C5_EvalSchedule ==
    pc \in {"loop", "done"} =>
    /\ \A e \in Finished :
          Count("test_epoch", e) =
              IF (e + 1) % cfg.EVAL_PERIOD = 0 \/ e + 1 = cfg.MAX_EPOCH THEN 1 ELSE 0
    /\ (cfg.mode = "train" /\ pc = "done" /\ Len(TrainedEpochs) > 0 =>
          Count("test_epoch", cfg.MAX_EPOCH - 1) = 1)

\* the final epoch evaluated off the eval period, after an epoch that was not
C5_Witness ==
    /\ cfg.mode = "train" /\ pc = "done"
    /\ cfg.MAX_EPOCH % cfg.EVAL_PERIOD # 0
    /\ Count("test_epoch", cfg.MAX_EPOCH - 1) = 1
    /\ \E e \in Finished : Count("test_epoch", e) = 0

\* ----------------------------------------------------------------- C6
\* C6: an epoch whose loop body has ended wrote a best-flagged checkpoint
\* exactly when test_epoch ran in that epoch and its result improved on the
\* best so far; an epoch without evaluation wrote none.
C6_BestOnlyAfterImprovingEval ==
    pc \in {"loop", "done"} =>
    \A e \in Finished :
        (CountSaves(e, TRUE) > 0) <=>
            (\E i \in Idx : /\ trace[i].op = "test_epoch"
                            /\ trace[i].epoch = e
                            /\ trace[i].best)

\* ----------------------------------------------------------------- C7
FreshRunPeriodOne ==
    /\ cfg.mode = "train" /\ pc = "done"
    /\ start_epoch = 0 /\ cfg.MAX_EPOCH >= 1
    /\ cfg.CHECKPOINT_PERIOD = 1 /\ cfg.EVAL_PERIOD = 1

\* C7: a finished fresh run of N >= 1 epochs with both periods 1 wrote the
\* N per-epoch paths 0 .. N-1 and nothing else (a directory that was empty
\* holds exactly those N files), holds one best-pointer file, and logged N
\* train and N test epoch stats, one per epoch.
C7_FilesAndStats ==
    FreshRunPeriodOne =>
        /\ (LET s == Saves IN {s[i].epoch : i \in 1 .. Len(s)}) = 0 .. cfg.MAX_EPOCH - 1
        /\ (cfg.AUTO_RESUME =>
              DOMAIN files = 0 .. cfg.MAX_EPOCH - 1
              /\ Cardinality(DOMAIN files) = cfg.MAX_EPOCH)
        /\ Cardinality(best_file) = 1
        /\ \A e \in 0 .. cfg.MAX_EPOCH - 1 :
              Count("train_epoch", e) = 1 /\ Count("test_epoch", e) = 1
        /\ CountOp("train_epoch") = cfg.MAX_EPOCH
        /\ CountOp("test_epoch") = cfg.MAX_EPOCH

C7_Witness ==
    /\ FreshRunPeriodOne /\ cfg.AUTO_RESUME /\ cfg.MAX_EPOCH = 2
    /\ Cardinality(DOMAIN files) = 2 /\ Cardinality(best_file) = 1
    /\ Len(Saves) > 2

\* ----------------------------------------------------------------- C8
WorkOps == {"load_checkpoint", "load_weights", "construct_loaders",
            "compute_time_full", "train_epoch", "test_epoch", "save_checkpoint"}

\* C8: in every mode, a configured device count above the available one
\* stops the run at the device assertion for good, with no checkpoint or
\* weights loaded, no data loader constructed and no epoch run.
C8_FailFast ==
    cfg.NUM_GPUS > device_count =>
        /\ pc \in {"setup_env", "setup_model", "failed"}
        /\ ~loaders
        /\ model_from \in {"none", "built"}
        /\ optim_from = "none"
        /\ \A i \in Idx : trace[i].op \notin WorkOps
        /\ (pc = "failed" => ~ENABLED Next)

C8_Witness ==
    /\ pc = "failed" /\ cfg.mode = "train"
    /\ cfg.AUTO_RESUME /\ DOMAIN files # {}
    /\ cfg.NUM_GPUS > device_count

C10_StrictlyIncreasing ==
    pc \in {"evaluate", "empty_cache"} =>
    LET s == Saves IN
    \A i \in 1 .. Len(s) - 1 : s[i].epoch < s[i + 1].epoch

\* C10 amended: the epoch indices of successive saves of a run never
\* decrease, and two saves carry the same index only as the periodic save
\* of an epoch directly followed by that epoch's best save, which rewrites
\* the epoch's record.
C10_NonDecreasing ==
    pc \in {"evaluate", "empty_cache"} =>
    LET s == Saves IN
    /\ \A i \in 1 .. Len(s) - 1 :
          /\ s[i].epoch <= s[i + 1].epoch
          /\ (s[i].epoch = s[i + 1].epoch => ~s[i].best /\ s[i + 1].best)
    /\ \A i \in 1 .. Len(s) - 2 : s[i].epoch < s[i + 2].epoch

C10_Witness ==
    LET s == Saves IN
    \E i \in 1 .. Len(s) - 2 :
        /\ s[i].epoch = s[i + 1].epoch
        /\ s[i + 1].epoch < s[i + 2].epoch

\* ---------------------------------------------------------------- C11
\* C11: a run in evaluate mode never holds optimizer state, never steps an
\* optimizer or sets a learning rate, never trains an epoch and never
\* writes a checkpoint; from the load on the model holds the given weights;
\* it cannot stop before its end, at most one test epoch runs, and a run
\* that reached its end ran exactly one and takes no further step.
C11_EvaluateOnly ==
    cfg.mode = "evaluate" =>
        /\ optim_from = "none"
        /\ params = 0
        /\ lr_epoch = NoEpoch
        /\ grads = NoGrads
        /\ files = << >> /\ best_file = {}
        /\ \A i \in Idx : trace[i].op \notin
              {"train_epoch", "save_checkpoint", "load_checkpoint", "compute_time_full"}
        /\ CountOp("test_epoch") <= 1
        /\ (pc \in {"construct_loaders", "test_epoch", "test_iter", "done"} =>
              model_from = "weights" /\ CountOp("load_weights") = 1)
        /\ (~Terminal => ENABLED Next)
        /\ (pc = "done" => CountOp("test_epoch") = 1 /\ ~ENABLED Next)

C11_Witness ==
    /\ cfg.mode = "evaluate" /\ pc = "done"
    /\ model_from = "weights"
    /\ CountOp("test_epoch") = 1

\* ---------------------------------------------------------------- C12
\* C12: every save of this run tagged e comes after train_epoch(e) of this
\* run was completed and before the next train_epoch is entered; inside
\* train_epoch no checkpoint of the epoch in training or a later one is
\* stored; inside the mini-batch loops, and in a process terminated there, the
\* checkpoint directory is as the last completed save (or the start of the
\* run) left it; a run started again after a termination resumes from the
\* checkpoint last saved, at its epoch + 1, and from epoch 0 when there is
\* none.
C12_SavesAtEpochBoundaries ==
    /\ (Len(trace) >= 1 /\ trace[Len(trace)].op = "save_checkpoint" =>
          /\ pc \notin {"train_epoch", "train_iter", "optim_step", "scaler_update",
                      "iter_stats"}
          /\ trace[Len(trace)].epoch = cur_epoch
          /\ \E j \in 1 .. Len(trace) - 1 :
                trace[j].op = "train_epoch" /\ trace[j].epoch = trace[Len(trace)].epoch)
    /\ (pc \in MiniBatchPcs \cup {"killed"} =>
          /\ files = stored.files /\ best_file = stored.best_file
          /\ \A e \in DOMAIN files : pc \in {"test_iter", "killed"} \/ e < cur_epoch
          /\ LastSavedEpoch(trace) = IF DOMAIN files = {} THEN NoEpoch ELSE Max(DOMAIN files))
    /\ (Len(trace) >= 1 /\ trace[1].op = "restart"
        /\ pc \notin {"setup_env", "setup_model", "construct_optimizer", "load"} =>
          LET last == trace[Cardinality({i \in Idx : trace[i].op = "restart"})].epoch
          IN /\ start_epoch = IF last = NoEpoch THEN 0 ELSE last + 1
             /\ (last # NoEpoch =>
                   model_from = "last_checkpoint" /\ optim_from = "last_checkpoint"))

\* a run terminated in a mini-batch of an epoch after its last save has
\* been started again and resumed
C12_Witness ==
    /\ pc = "train_iter" /\ cur_iter = 1
    /\ Len(trace) >= 1 /\ trace[1].op = "restart" /\ trace[1].epoch >= 1
    /\ start_epoch = trace[1].epoch + 1
    /\ cur_epoch = start_epoch
    /\ Cardinality(DOMAIN files) >= 2

\* ---------------------------------------------------------------- C13
\* the place of a position in the loop body
Stage(p) ==
    CASE p = "loop" -> 0
      [] p = "train_iter" -> 1
      [] p = "train_reduce" -> 2
      [] p = "save_checkpoint" -> 3
      [] p = "write_periodic" -> 4
      [] p = "barrier_periodic" -> 5
      [] p = "test_iter" -> 6
      [] p = "test_reduce" -> 7
      [] p = "save_best" -> 8
      [] p = "write_best" -> 9
      [] p = "barrier_best" -> 10
      [] p = "empty_cache" -> 11
      [] OTHER -> 12

StepRank(ev) ==
    CASE ev.op = "drop_path_prob" -> 1
      [] ev.op = "train_epoch" -> 2
      [] ev.op = "precise_bn" -> 3
      [] ev.op = "save_checkpoint" /\ ~ev.best -> 4
      [] ev.op = "test_epoch" -> 5
      [] ev.op = "save_checkpoint" /\ ev.best -> 6
      [] ev.op = "empty_cache" -> 7
      [] OTHER -> 0

\* C14: of two successive steps of the loop, the later one belongs to the
\* same epoch and comes later in the order drop probability, train_epoch,
\* precise statistics, periodic checkpoint, test_epoch, best checkpoint,
\* cache release (so no step runs twice in an epoch), or it belongs to the
\* next epoch and the earlier one is the cache release; the first step
\* belongs to start_epoch; the drop probability set for epoch e is
\* e / max_epoch of the base rate and is set only when configured, and the
\* precise statistics are recomputed only when enabled.
C14_StepOrder ==
    (cfg.mode = "train" /\ Len(trace) >= 2 /\ StepRank(trace[Len(trace)]) > 0) =>
        LET a == trace[Len(trace) - 1]
            b == trace[Len(trace)]
        IN /\ IF StepRank(a) = 0
              THEN b.epoch = start_epoch
              ELSE IF a.epoch = b.epoch
                   THEN StepRank(a) < StepRank(b)
                   ELSE StepRank(a) = 7 /\ b.epoch = a.epoch + 1
           /\ (StepRank(b) = 1 =>
                 cfg.DROP_PATH /\ drop_prob = << b.epoch, cfg.MAX_EPOCH >>)
           /\ (StepRank(b) = 3 => cfg.PRECISE_BN)
           /\ (StepRank(b) = 2 /\ cfg.DROP_PATH =>
                 StepRank(a) = 1 /\ a.epoch = b.epoch)

\* an epoch in which all seven steps ran, after an earlier epoch
C14_Witness ==
    /\ cfg.mode = "train" /\ pc = "loop"
    /\ \E e \in Finished :
          /\ e > start_epoch
          /\ Count("drop_path_prob", e) = 1
          /\ Count("train_epoch", e) = 1
          /\ Count("precise_bn", e) = 1
          /\ CountSaves(e, FALSE) = 1
          /\ Count("test_epoch", e) = 1
          /\ CountSaves(e, TRUE) = 1

\* ---------------------------------------------------------------- C15
\* C15 as stated: in an epoch in which test_epoch runs, it is completed
\* before every checkpoint save of that epoch.
C15_EvalBeforeEverySave ==
    (Len(trace) >= 1 /\ trace[Len(trace)].op = "test_epoch") =>
        \A i \in Idx :
            ~(trace[i].op = "save_checkpoint"
              /\ trace[i].epoch = trace[Len(trace)].epoch)

\* C15 amended: in an epoch in which test_epoch runs, the periodic
\* checkpoint save of that epoch (when due) is completed before test_epoch
\* starts and only the best-flagged save comes after it: the control flow
\* is train, conditional periodic save, conditional evaluate, conditional
\* best-flagged save.
C15_PeriodicSaveThenEval ==
    /\ (Len(trace) >= 1 /\ trace[Len(trace)].op = "test_epoch") =>
          \A i \in Idx :
              (trace[i].op = "save_checkpoint"
               /\ trace[i].epoch = trace[Len(trace)].epoch) =>
                  /\ ~trace[i].best
                  /\ \E j \in 1 .. i - 1 :
                        trace[j].op = "train_epoch" /\ trace[j].epoch = trace[i].epoch
    /\ (Len(trace) >= 1 /\ trace[Len(trace)].op = "save_checkpoint"
        /\ ~trace[Len(trace)].best) =>
          \A i \in Idx :
              ~(trace[i].op = "test_epoch"
                /\ trace[i].epoch = trace[Len(trace)].epoch)

\* test_epoch completed in an epoch right after that epoch's periodic save
C15_Witness ==
    /\ Len(trace) >= 2
    /\ trace[Len(trace)].op = "test_epoch"
    /\ trace[Len(trace) - 1].op = "save_checkpoint"
    /\ trace[Len(trace) - 1].epoch = trace[Len(trace)].epoch
    /\ trace[Len(trace)].epoch > start_epoch

\* ---------------------------------------------------------------- C16
InTrainBatches == pc \in {"train_iter", "optim_step", "scaler_update", "iter_stats"}

\* C16: from the first mini-batch of train_epoch(e) to its last, the data
\* order is the one drawn from e, the optimizer's learning rate is the
\* scheduled rate of e and the model is in training mode, also in the first
\* epoch of a resumed run, whose optimizer was restored with the rate of
\* the checkpoint's epoch.
C16_EpochLr ==
    /\ (InTrainBatches =>
          /\ shuffle_epoch = cur_epoch
          /\ lr_epoch = cur_epoch
          /\ mode_train)
    /\ (cfg.mode = "train" /\ pc \in {"construct_loaders", "compute_time", "loop"}
        /\ optim_from = "last_checkpoint" /\ CountOp("train_epoch") = 0 =>
          lr_epoch = start_epoch - 1)

\* after an optimizer step in the first epoch of a resumed run
C16_Witness ==
    /\ pc = "iter_stats" /\ cur_iter = 0 /\ params = 1
    /\ optim_from = "last_checkpoint"
    /\ cur_epoch = start_epoch /\ start_epoch > 0
    /\ lr_epoch = cur_epoch

\* ---------------------------------------------------------------- C17
\* C17: after the optimizer step of a training mini-batch, the gradients
\* it used are those of exactly one backward pass, and with a gradient-clip
\* threshold configured their norm was clipped, in full and in mixed
\* precision.
C17_ClippedSingleBackward ==
    pc \in {"scaler_update", "iter_stats"} =>
        /\ grads.passes = 1
        /\ (cfg.GRAD_CLIP => grads.clipped)

\* ---------------------------------------------------------------- C18
\* C18: in every mini-batch of test_epoch the model is in evaluation mode,
\* gradient tracking is off and the parameters, the optimizer state and
\* the learning rate are those at its entry; they still are when it has
\* returned or raised; outside test_epoch gradient tracking is what it was
\* before (on); every training mini-batch runs in training mode with
\* gradient tracking on.
C18_TestEpochFrame ==
    /\ (pc = "test_iter" => ~mode_train /\ ~grad_enabled)
    /\ (pc # "test_iter" => grad_enabled)
    /\ ((pc = "test_iter" \/ (pc = "failed" /\ loaders)
         \/ (Len(trace) >= 1 /\ trace[Len(trace)].op = "test_epoch")) =>
          /\ params = pre_test.params
          /\ lr_epoch = pre_test.lr_epoch
          /\ optim_from = pre_test.optim_from
          /\ grads = pre_test.grads)
    /\ (InTrainBatches => mode_train /\ grad_enabled)

\* an exception in the second test_epoch of a run, after an epoch trained
\* since the first one
C18_Witness ==
    /\ pc = "failed" /\ loaders
    /\ CountOp("test_epoch") = 1
    /\ CountOp("train_epoch") >= 2
    /\ trace[Len(trace)].op # "test_epoch"
    /\ grad_enabled /\ ~mode_train
    /\ params = pre_test.params /\ params > 0

\* ---------------------------------------------------------------- C19
\* C19: between epochs, the best-flagged checkpoint last written is the one
\* of the latest evaluation that improved on all evaluations before it (the
\* evaluated epoch with the lowest top-1 error, ties not replacing it), and
\* it exists as soon as an evaluation has been completed.
C19_BestIsLowestEvaluated ==
    (cfg.mode = "train" /\ pc \in {"loop", "done"}) =>
        LET improving == {i \in Idx : trace[i].op = "test_epoch" /\ trace[i].best}
        IN IF improving = {}
           THEN best_file = {}
           ELSE best_file = {trace[Max(improving)].epoch}

\* ---------------------------------------------------------------- C20
\* C20: in a run of N processes with equal batch counts, two processes are
\* never more than one collective apart and in the same epoch or adjacent
\* ones; processes that have entered the same number of collectives entered
\* the same one last (the same reduction or the barrier of the same save,
\* so they took the same checkpoint, evaluation and best-save decisions);
\* at the same place between evaluations they hold the same best error and
\* flag; as long as a process has not finished the loop some process can
\* take a step, the number of collectives is bounded, and when all have
\* finished they have run the same epochs and entered the same collectives.
C20_Lockstep ==
    /\ \A p, q \in Ranks :
          /\ proc[p].n - proc[q].n \in {0 - 1, 0, 1}
          /\ proc[p].epoch - proc[q].epoch \in {0 - 1, 0, 1}
          /\ (proc[p].n = proc[q].n => proc[p].last = proc[q].last)
          /\ (proc[p].pc = proc[q].pc /\ proc[p].epoch = proc[q].epoch
              /\ proc[p].pc \notin {"test_iter", "test_reduce"} =>
                 proc[p].meter = proc[q].meter)
    /\ ((\E p \in Ranks : proc[p].pc # "done") => ENABLED DistNext)
    /\ \A p \in Ranks :
          /\ proc[p].n <= cfg.MAX_EPOCH * (2 * DistBatches + 2)
          /\ proc[p].epoch <= cfg.MAX_EPOCH
          /\ proc[p].iter <= DistBatches
    /\ ((\A p \in Ranks : proc[p].pc = "done") =>
          \A p \in Ranks :
              /\ proc[p].epoch = cfg.MAX_EPOCH
              /\ proc[p].n = proc[0].n
              /\ proc[p].n >= cfg.MAX_EPOCH * DistBatches + DistBatches + 1)

\* every process has finished a run of two epochs whose second evaluation
\* did not improve on the first
C20_Witness ==
    /\ cfg.NUM_GPUS >= 2 /\ cfg.MAX_EPOCH = 2 /\ cfg.EVAL_PERIOD = 1
    /\ \A p \in Ranks : proc[p].pc = "done" /\ ~proc[p].meter.is_best
    /\ best_file = {0}
    /\ coll > 0

====
